---- MODULE Spec2Model ----
(***************************************************************************)
(* Fermat probable-prime scan (src/fermat.c).                              *)
(*                                                                         *)
(* main() scans the candidates p = 3 .. max-1.  For each candidate it runs *)
(* up to 20 trials; each trial draws a1 = rand() % (p - 2) + 2, computes   *)
(* (a1^p - a1) mod p with GMP integers and, when the remainder is not 0,   *)
(* records a1 as the composite witness and the previous a1 as the Fermat   *)
(* liar.  One line is printed per candidate.                               *)
(*                                                                         *)
(* The GMP integers are modelled as sign + magnitude, the magnitude being  *)
(* a little-endian sequence of limbs, so that a^p is computed exactly      *)
(* although it does not fit a machine word.                                *)
(***************************************************************************)
EXTENDS Integers, Sequences, FiniteSets, TLC

(***************************************************************************)
(* Bounds of the model and constants of the program.                       *)
(***************************************************************************)

\* Exclusive upper bound of the scan: `int max = 1000` in the program; the
\* model scans a shorter range.
max == 9

\* rand() returns a value in 0 .. RAND_MAX; the model draws from 0 .. RandMax.
RandMax == 7

\* The values of rand() explored for the first trial of a candidate when
\* every candidate of the program's range is examined.
FirstRandMax == 1

\* Exclusive upper bound of the program's scan: `int max = 1000`.
ProgramMax == 1000

\* The Carmichael number named in the header comment of the program.
Carmichael == 561

\* The trial budget of one candidate: the literal 20 of the while condition.
MAX_TRIALS == 20

\* Radix of one limb of an mpz_t.  GMP uses a machine word; the model uses a
\* radix whose limb products stay inside the model checker's integers.  The
\* value an mpz_t denotes does not depend on the radix.
Base == 10000

(***************************************************************************)
(* Arbitrary-precision integers (gmp.h).                                   *)
(* An mpz value is [neg, mag]: mag is the magnitude, least significant     *)
(* limb first, without leading zero limbs; zero is [FALSE, <<>>].          *)
(***************************************************************************)

RECURSIVE LimbsOf(_)
\* The limbs of a machine integer n >= 0.
LimbsOf(n) ==
    IF n = 0 THEN <<>> ELSE <<n % Base>> \o LimbsOf(n \div Base)

RECURSIVE Normalize(_)
\* Strip the leading (most significant) zero limbs.
Normalize(x) ==
    IF x = <<>> THEN <<>>
    ELSE IF x[Len(x)] = 0 THEN Normalize(SubSeq(x, 1, Len(x) - 1))
    ELSE x

\* Limb i of the magnitude x, 0 beyond its length.
Limb(x, i) == IF i <= Len(x) THEN x[i] ELSE 0

RECURSIVE AddScan(_, _, _, _, _)
\* Limbs lo .. hi of x + y with carry c into limb lo, and the carry out of
\* limb hi.  The range is split in halves, the carry passing from the lower
\* half to the upper one.
AddScan(x, y, lo, hi, c) ==
    IF lo > hi THEN [limbs |-> <<>>, carry |-> c]
    ELSE IF lo = hi
    THEN LET t == Limb(x, lo) + Limb(y, lo) + c
         IN  [limbs |-> <<t % Base>>, carry |-> t \div Base]
    ELSE LET mid   == (lo + hi) \div 2
             lower == AddScan(x, y, lo, mid, c)
             upper == AddScan(x, y, mid + 1, hi, lower.carry)
         IN  [limbs |-> lower.limbs \o upper.limbs, carry |-> upper.carry]

\* Magnitude x + y + carry.
AddMag(x, y, c) ==
    IF y = <<>> /\ c = 0 THEN x
    ELSE IF x = <<>> /\ c = 0 THEN y
    ELSE LET n == IF Len(x) > Len(y) THEN Len(x) ELSE Len(y)
             s == AddScan(x, y, 1, n, c)
         IN  s.limbs \o LimbsOf(s.carry)

RECURSIVE SubScan(_, _, _, _, _)
\* Limbs lo .. hi of x - y with borrow b from limb lo, and the borrow out of
\* limb hi.
SubScan(x, y, lo, hi, b) ==
    IF lo > hi THEN [limbs |-> <<>>, borrow |-> b]
    ELSE IF lo = hi
    THEN LET t == Limb(x, lo) - Limb(y, lo) - b
         IN  [limbs |-> <<(t + Base) % Base>>,
              borrow |-> IF t < 0 THEN 1 ELSE 0]
    ELSE LET mid   == (lo + hi) \div 2
             lower == SubScan(x, y, lo, mid, b)
             upper == SubScan(x, y, mid + 1, hi, lower.borrow)
         IN  [limbs |-> lower.limbs \o upper.limbs, borrow |-> upper.borrow]

\* Magnitude x - y - borrow, for x >= y + borrow (limbs, not normalised).
SubMag(x, y, b) == SubScan(x, y, 1, Len(x), b).limbs

RECURSIVE CmpMag(_, _)
\* Sign of |x| - |y| for normalised magnitudes: 1, 0 or -1.
CmpMag(x, y) ==
    IF Len(x) # Len(y) THEN (IF Len(x) > Len(y) THEN 1 ELSE -1)
    ELSE IF x = <<>> THEN 0
    ELSE IF x[Len(x)] # y[Len(y)] THEN (IF x[Len(x)] > y[Len(y)] THEN 1 ELSE -1)
    ELSE CmpMag(SubSeq(x, 1, Len(x) - 1), SubSeq(y, 1, Len(y) - 1))

\* Faulty variant of MulLimb: the carry out of a limb is dropped.
MulLimb_NoCarry(x, d, c) == [i \in 1 .. Len(x) |-> (x[i] * d) % Base]

RECURSIVE MulScan(_, _, _, _, _)
\* Limbs lo .. hi of x * d with carry c into limb lo, and the carry out of
\* limb hi.
MulScan(x, d, lo, hi, c) ==
    IF lo > hi THEN [limbs |-> <<>>, carry |-> c]
    ELSE IF lo = hi
    THEN LET t == x[lo] * d + c
         IN  [limbs |-> <<t % Base>>, carry |-> t \div Base]
    ELSE LET mid   == (lo + hi) \div 2
             lower == MulScan(x, d, lo, mid, c)
             upper == MulScan(x, d, mid + 1, hi, lower.carry)
         IN  [limbs |-> lower.limbs \o upper.limbs, carry |-> upper.carry]

\* Magnitude x * d + carry for one limb d.
MulLimb(x, d, c) ==
    LET s == MulScan(x, d, 1, Len(x), c)
    IN  s.limbs \o LimbsOf(s.carry)

RECURSIVE MulMag(_, _)
\* Magnitude x * y, schoolbook: x * y0 + Base * (x * y').
MulMag(x, y) ==
    IF y = <<>> \/ x = <<>> THEN <<>>
    ELSE LET rest == MulMag(x, Tail(y))
         IN  Normalize(AddMag(MulLimb(x, Head(y), 0),
                              IF rest = <<>> THEN <<>> ELSE <<0>> \o rest,
                              0))

RECURSIVE RadixPow(_, _)
\* Base^k modulo d, by repeated squaring.
RadixPow(k, d) ==
    IF k = 0 THEN 1 % d
    ELSE LET h == RadixPow(k \div 2, d)
         IN  IF k % 2 = 0 THEN (h * h) % d ELSE (((h * h) % d) * (Base % d)) % d

RECURSIVE ModScan(_, _, _, _)
\* The number made of the limbs lo .. hi of x, modulo d: the upper half is
\* shifted by the length of the lower half.
ModScan(x, d, lo, hi) ==
    IF lo > hi THEN 0
    ELSE IF lo = hi THEN x[lo] % d
    ELSE LET mid == (lo + hi) \div 2
         IN  (ModScan(x, d, mid + 1, hi) * RadixPow(mid - lo + 1, d)
              + ModScan(x, d, lo, mid)) % d

\* Magnitude x modulo the machine integer d > 0.
ModMag(x, d) == ModScan(x, d, 1, Len(x))

\* mpz_init: the value 0.
mpz_init == [neg |-> FALSE, mag |-> <<>>]

\* mpz_set_ui(rop, n): rop = n.
mpz_set_ui(n) == [neg |-> FALSE, mag |-> LimbsOf(n)]

\* mpz_mul(rop, x, y): rop = x * y (used by the exponentiation).
mpz_mul(x, y) ==
    LET m == MulMag(x.mag, y.mag)
    IN  [neg |-> (m # <<>>) /\ (x.neg # y.neg), mag |-> m]

RECURSIVE PowersFrom(_, _, _)
\* <<x * b, x * b^2, ..., x * b^n>> by repeated multiplication; the second
\* half of the sequence continues from the last value of the first half.
PowersFrom(x, b, n) ==
    IF n = 0 THEN <<>>
    ELSE IF n = 1 THEN <<mpz_mul(x, b)>>
    ELSE LET h     == n \div 2
             lower == PowersFrom(x, b, h)
         IN  lower \o PowersFrom(lower[h], b, n - h)

\* The largest exponent for which the powers of the base w are kept: the
\* whole range of the program for the bases of a first trial, the Carmichael
\* number for the bases a draw of the model can give, the scanned range for
\* the others.
ExpLimit(w) ==
    IF w <= FirstRandMax + 2 THEN ProgramMax
    ELSE IF w <= RandMax + 2 THEN Carmichael
    ELSE max

\* The bases whose powers are kept: every witness a draw of the model can
\* give, and 0 and 1.
Bases == 0 .. (IF max > RandMax + 2 THEN max ELSE RandMax + 2)

\* w^1 .. w^ExpLimit(w) for every base w, each computed once.
PowerTable ==
    [w \in Bases |-> PowersFrom(mpz_set_ui(1), mpz_set_ui(w), ExpLimit(w))]

\* b^n for n >= 1, from the table where it has the entry.
PowerOf(b, n) ==
    LET w == IF b.neg \/ Len(b.mag) > 1 THEN -1 ELSE Limb(b.mag, 1)
    IN  IF w \in DOMAIN PowerTable /\ n <= Len(PowerTable[w])
        THEN PowerTable[w][n]
        ELSE PowersFrom(mpz_set_ui(1), b, n)[n]

\* Faulty variant of mpz_pow_ui: the exponent is one too small, b^(n-1).
mpz_pow_ui_pred(b, n) ==
    IF n <= 1 THEN mpz_set_ui(1) ELSE PowerOf(b, n - 1)

\* mpz_pow_ui(rop, b, n): rop = b^n exactly; 0^0 is 1.
mpz_pow_ui(b, n) ==
    IF n = 0 THEN mpz_set_ui(1) ELSE PowerOf(b, n)

\* Faulty variant of mpz_sub: the subtrahend is ignored.
mpz_sub_noop(x, y) == x

\* mpz_sub(rop, x, y): rop = x - y, signed.
mpz_sub(x, y) ==
    IF x.neg # y.neg
    THEN [neg |-> x.neg, mag |-> AddMag(x.mag, y.mag, 0)]
    ELSE LET c == CmpMag(x.mag, y.mag)
         IN  IF c = 0 THEN mpz_init
             ELSE IF c > 0
             THEN [neg |-> x.neg, mag |-> Normalize(SubMag(x.mag, y.mag, 0))]
             ELSE [neg |-> ~x.neg, mag |-> Normalize(SubMag(y.mag, x.mag, 0))]

\* Faulty variant of mpz_mod_ui: only the least significant limb of n is
\* divided, as if n had been converted to a machine word first.
mpz_mod_ui_word(n, d) == mpz_set_ui(Limb(n.mag, 1) % d)

\* mpz_mod_ui(rop, n, d): rop = n mod d, always in 0 .. d-1.
mpz_mod_ui(n, d) ==
    LET r == ModMag(n.mag, d)
    IN  mpz_set_ui(IF n.neg /\ r # 0 THEN d - r ELSE r)

\* mpz_cmp_ui(x, n): positive, zero or negative as x > n, x = n, x < n.
mpz_cmp_ui(x, n) ==
    IF x.neg THEN -1 ELSE CmpMag(x.mag, LimbsOf(n))

(***************************************************************************)
(* The documented congruence (header comment of fermat.c), computed with   *)
(* machine integers only: modular exponentiation, then the adjustment.     *)
(***************************************************************************)

RECURSIVE PowMod(_, _, _)
\* b^n mod m by repeated squaring, reduced at every step.
PowMod(b, n, m) ==
    IF n = 0 THEN 1 % m
    ELSE LET h == PowMod(b, n \div 2, m)
         IN  IF n % 2 = 0 THEN (h * h) % m ELSE (((h * h) % m) * (b % m)) % m

\* ((w^q - w) % q) == 0, the test of Fermat's little theorem.
FermatHolds(q, w) == (PowMod(w, q, q) + q - (w % q)) % q = 0

\* q has a divisor strictly between 1 and q.
IsComposite(q) == \E d \in 2 .. (q - 1) : q % d = 0

(***************************************************************************)
(* State of main().                                                        *)
(***************************************************************************)
VARIABLES
    pc,                 \* position: "for", "while" or "done"
    p,                  \* unsigned int p, the candidate
    trial,              \* int trial
    composite_witness,  \* int composite_witness
    fermat_liar,        \* int fermat_liar
    a1,                 \* unsigned int a1
    olda1,              \* unsigned int olda1
    a, e, r1,           \* mpz_t a, e, r1
    cmp1,               \* unsigned int cmp1
    mpz_live,           \* TRUE between mpz_init and mpz_clear
    out,                \* the lines written to standard output
    returned,           \* <<>> while running, <<code>> after return
    drawn,              \* history: the a1 of the last three trials of p, oldest
                        \* first, 0 where there was no trial
    ndrawn,             \* history: number of rand() calls made for p
    nfailed             \* history: number of trials of p with remainder # 0

vars == <<pc, p, trial, composite_witness, fermat_liar, a1, olda1, a, e, r1,
          cmp1, mpz_live, out, returned, drawn, ndrawn, nfailed>>

\* The values rand() can return.
RandValues == 0 .. RandMax

\* Faulty variant of ForCond: the upper bound is included.
ForCond_Inclusive == p <= max

\* for (p = 3; p < max; ++p): the loop test.
ForCond == p < max

\* Faulty variant of NextP: only odd candidates are visited.
NextP_SkipEven == p + 2

\* for (p = 3; p < max; ++p): the value of p after ++p.
NextP == p + 1

\* Faulty variant of WhileCond: a found witness does not end the loop.
WhileCond_NoStop == trial < MAX_TRIALS

\* Faulty variant of WhileCond: one trial too many.
WhileCond_OneMore == (trial <= MAX_TRIALS) /\ (composite_witness = 0)

\* while ((trial < 20) && (composite_witness == 0)): the loop test.
WhileCond == (trial < MAX_TRIALS) /\ (composite_witness = 0)

\* Faulty variant of Draw: the modulus is one too large, so a1 can be p.
Draw_Wide(r) == (r % (p - 1)) + 2

\* Faulty variant of Draw: the offset 2 is missing, so a1 can be 0 or 1.
Draw_NoOffset(r) == r % (p - 2)

\* a1 = rand() % (p - 2) + 2, for the value r returned by rand().
Draw(r) == (r % (p - 2)) + 2

\* Faulty variant of IsWitness: the comparison is inverted.
IsWitness_Inverted(c) == c = 0

\* if (cmp1 != 0): the remainder is not 0, p is composite.
IsWitness(c) == c # 0

\* Faulty variant of LiarOf: the current a1 is stored instead of the old one.
LiarOf_Current(old) == a1'

\* fermat_liar = olda1: the value stored as the liar when a trial fails.
LiarOf(old) == old

\* Faulty variant of Line: the liar clause is printed whenever p is composite.
Line_AlwaysLiar ==
    IF composite_witness = 0
    THEN [cand |-> p, kind |-> "probable prime", witness |-> 0,
          has_liar |-> FALSE, liar |-> 0,
          text |-> ToString(p) \o " is a probable prime\n"]
    ELSE [cand |-> p, kind |-> "composite", witness |-> composite_witness,
          has_liar |-> TRUE, liar |-> fermat_liar,
          text |-> ToString(p) \o " is composite - "
                   \o ToString(composite_witness) \o " is a composite witness"
                   \o " - " \o ToString(fermat_liar)
                   \o " is a fermat liar for " \o ToString(p) \o "\n"]

\* The line printed for the candidate q when the loop ends with the witness
\* cw and the liar fl: the three printf formats.
LineOf(q, cw, fl) ==
    IF cw = 0
    THEN [cand |-> q, kind |-> "probable prime", witness |-> 0,
          has_liar |-> FALSE, liar |-> 0,
          text |-> ToString(q) \o " is a probable prime\n"]
    ELSE [cand |-> q, kind |-> "composite", witness |-> cw,
          has_liar |-> fl > 0,
          liar |-> IF fl > 0 THEN fl ELSE 0,
          text |-> ToString(q) \o " is composite - "
                   \o ToString(cw) \o " is a composite witness"
                   \o (IF fl > 0
                       THEN " - " \o ToString(fl)
                            \o " is a fermat liar for " \o ToString(q)
                       ELSE "")
                   \o "\n"]

\* The line printed for the candidate p.
Line == LineOf(p, composite_witness, fermat_liar)

\* The GMP calls of one trial for candidate q and witness w: mpz_set_ui(a, w),
\* mpz_pow_ui(e, a, q), mpz_sub(e, e, a), mpz_mod_ui(r1, e, q).  The result is
\* the values the calls leave in a, e and r1.
Congruence(q, w) ==
    LET av == mpz_set_ui(w)
        ev == mpz_sub(mpz_pow_ui(av, q), av)
        rv == mpz_mod_ui(ev, q)
    IN  [a |-> av, e |-> ev, r1 |-> rv]

\* The largest witness for which the calls are evaluated for the candidate
\* q: every witness of the scanned range, every witness a draw of the model
\* can give for the Carmichael number, the witnesses of a first trial for
\* the other candidates of the program.
WitnessLimit(q) ==
    IF q <= max THEN max
    ELSE IF q = Carmichael THEN RandMax + 2
    ELSE FirstRandMax + 2

\* Congruence, evaluated once for every candidate and witness of the model.
CongruenceOf ==
    [q \in 3 .. (ProgramMax - 1) |->
        [w \in 0 .. WitnessLimit(q) |-> Congruence(q, w)]]

\* The history of draws before any trial of the candidate.
NoDraws == <<0, 0, 0>>

\* The history of draws after one more draw w: the oldest entry is dropped.
Remember(w) == <<drawn[2], drawn[3], w>>

\* State at the first loop test: srand, max, mpz_init of a, e, r1, p = 3.
Init ==
    /\ pc = "for"
    /\ p = 3
    /\ trial = 0
    /\ composite_witness = 0
    /\ fermat_liar = 0
    /\ a1 = 0
    /\ olda1 = 0
    /\ a = mpz_init
    /\ e = mpz_init
    /\ r1 = mpz_init
    /\ cmp1 = 0
    /\ mpz_live = TRUE
    /\ out = <<>>
    /\ returned = <<>>
    /\ drawn = NoDraws
    /\ ndrawn = 0
    /\ nfailed = 0

\* Faulty variant of NextCandidate: a1 is declared outside the for loop and
\* keeps the last draw of the candidate before.
NextCandidate_KeepA1 ==
    /\ pc = "for"
    /\ ForCond
    /\ trial' = 0
    /\ composite_witness' = 0
    /\ fermat_liar' = 0
    /\ pc' = "while"
    /\ drawn' = NoDraws
    /\ ndrawn' = 0
    /\ nfailed' = 0
    /\ UNCHANGED <<p, a1, olda1, a, e, r1, cmp1, mpz_live, out, returned>>

\* The for test succeeds: the per-candidate locals are initialised.
NextCandidate ==
    /\ pc = "for"
    /\ ForCond
    /\ trial' = 0
    /\ composite_witness' = 0
    /\ fermat_liar' = 0
    /\ a1' = 0
    /\ pc' = "while"
    /\ drawn' = NoDraws
    /\ ndrawn' = 0
    /\ nfailed' = 0
    /\ UNCHANGED <<p, olda1, a, e, r1, cmp1, mpz_live, out, returned>>

\* The body of the while loop when the draw gives the witness w and
\* mpz_set_ui stores u in a; in the program u is the witness just drawn.
TrialStep(w, u) ==
    /\ olda1' = a1
    /\ a1' = w
    /\ a' = CongruenceOf[p][u].a
    /\ e' = CongruenceOf[p][u].e
    /\ r1' = CongruenceOf[p][u].r1
    /\ cmp1' = mpz_cmp_ui(r1', 0)
    /\ IF IsWitness(cmp1')
       THEN /\ composite_witness' = a1'
            /\ fermat_liar' = LiarOf(olda1')
            /\ nfailed' = nfailed + 1
       ELSE /\ UNCHANGED <<composite_witness, fermat_liar, nfailed>>
    /\ trial' = trial + 1
    /\ drawn' = Remember(a1')
    /\ ndrawn' = ndrawn + 1
    /\ UNCHANGED <<pc, p, mpz_live, out, returned>>

\* Faulty variant of Trial: mpz_set_ui(a, a1) runs before the draw, so the
\* operand a holds the a1 of the trial before (0 in the first trial).
Trial_StaleOperand ==
    /\ pc = "while"
    /\ WhileCond
    /\ \E w \in {Draw(r) : r \in RandValues} : TrialStep(w, a1)

\* One iteration of the while body; w is the witness computed from the value
\* r that rand() returns.
Trial ==
    /\ pc = "while"
    /\ WhileCond
    /\ \E w \in {Draw(r) : r \in RandValues} : TrialStep(w, w)

\* The while loop has ended: print the candidate's line, then ++p.
Report ==
    /\ pc = "while"
    /\ ~WhileCond
    /\ out' = Append(out, Line)
    /\ p' = NextP
    /\ pc' = "for"
    /\ UNCHANGED <<trial, composite_witness, fermat_liar, a1, olda1, a, e, r1,
                   cmp1, mpz_live, returned, drawn, ndrawn, nfailed>>

\* The for test fails: mpz_clear of r1, a, e and return (0).
Finish ==
    /\ pc = "for"
    /\ ~ForCond
    /\ mpz_live' = FALSE
    /\ returned' = <<0>>
    /\ pc' = "done"
    /\ UNCHANGED <<p, trial, composite_witness, fermat_liar, a1, olda1, a, e,
                   r1, cmp1, out, drawn, ndrawn, nfailed>>

Next == NextCandidate \/ Trial \/ Report \/ Finish

Spec == Init /\ [][Next]_vars

\* The program is sequential and always takes its next step.
FairSpec == Spec /\ WF_vars(Next)

(***************************************************************************)
(* Candidates beyond the scanned range.  The scan reaches the candidate q  *)
(* after printing a line for each of 3 .. q-1; the states below are those  *)
(* of the run in which rand() returns 0 every time, so that every draw is  *)
(* the witness 2.                                                          *)
(***************************************************************************)

\* The witness 2 fails for the candidate q.
ZeroRunFails(q) == IsWitness(mpz_cmp_ui(CongruenceOf[q][2].r1, 0))

\* The lines of the candidates 3, 4, ... in the run where every draw is 2.
ZeroRunOut ==
    [i \in 1 .. (ProgramMax - 4) |->
        LineOf(i + 2, IF ZeroRunFails(i + 2) THEN 2 ELSE 0, 0)]

\* The state of that run at the first while test of the candidate q: the
\* locals are initialised, olda1, a, e, r1 and cmp1 are as the last trial of
\* q - 1 left them.
LoopStart(q) ==
    /\ pc = "while"
    /\ p = q
    /\ trial = 0
    /\ composite_witness = 0
    /\ fermat_liar = 0
    /\ a1 = 0
    /\ olda1 = (IF q = 3 \/ ZeroRunFails(q - 1) THEN 0 ELSE 2)
    /\ a = (IF q = 3 THEN mpz_init ELSE CongruenceOf[q - 1][2].a)
    /\ e = (IF q = 3 THEN mpz_init ELSE CongruenceOf[q - 1][2].e)
    /\ r1 = (IF q = 3 THEN mpz_init ELSE CongruenceOf[q - 1][2].r1)
    /\ cmp1 = (IF q = 3 THEN 0 ELSE mpz_cmp_ui(r1, 0))
    /\ mpz_live = TRUE
    /\ out = SubSeq(ZeroRunOut, 1, q - 3)
    /\ returned = <<>>
    /\ drawn = NoDraws
    /\ ndrawn = 0
    /\ nfailed = 0

\* The test of the Carmichael number: its trials and its line.
CarmichaelInit == LoopStart(Carmichael)

CarmichaelNext == Trial \/ Report

CarmichaelSpec == CarmichaelInit /\ [][CarmichaelNext]_vars

\* The first trial of every candidate of the program, and the line when that
\* trial ends the loop.
FirstInit == \E q \in 3 .. (ProgramMax - 1) : LoopStart(q)

FirstTrial ==
    /\ pc = "while"
    /\ WhileCond
    /\ trial = 0
    /\ \E w \in {Draw(r) : r \in 0 .. FirstRandMax} : TrialStep(w, w)

FirstNext == FirstTrial \/ Report

FirstTrialSpec == FirstInit /\ [][FirstNext]_vars

TypeOK ==
    /\ pc \in {"for", "while", "done"}
    /\ p \in 3 .. max
    /\ trial \in 0 .. MAX_TRIALS
    /\ a1 \in 0 .. max
    /\ Len(out) = p - 3

(***************************************************************************)
(* Reference arithmetic on machine integers, used by the properties.       *)
(***************************************************************************)

RECURSIVE NatPow(_, _)
\* b^n on machine integers (only where it fits).
NatPow(b, n) == IF n = 0 THEN 1 ELSE b * NatPow(b, n - 1)

RECURSIVE FitsPow(_, _)
\* b^n fits a signed 32-bit integer (b >= 1).
FitsPow(b, n) ==
    IF n = 0 THEN TRUE
    ELSE FitsPow(b, n - 1) /\ NatPow(b, n - 1) <= 2147483647 \div b

\* Exact-then-reduce: (w^q - w) mod q = 0.
ExactHolds(q, w) == (NatPow(w, q) - w) % q = 0

\* The last line written to standard output, once a candidate was reported.
Reported == (pc \in {"for", "done"}) /\ (out # <<>>)
LastLine == out[Len(out)]

\* A trial of the current candidate has just run.
AfterTrial == (pc = "while") /\ (ndrawn > 0)

(***************************************************************************)
(* C1: the pass/fail decision of every trial, for every candidate p in     *)
(* [3, max) and every drawn witness a1, equals the reference value         *)
(* ((a1^p - a1) mod p == 0), the reference being computed by modular       *)
(* exponentiation and, where a1^p fits a machine integer, exactly.         *)
(***************************************************************************)
C1_DecisionMatchesReference ==
    AfterTrial =>
        /\ (cmp1 = 0) = FermatHolds(p, a1)
        /\ (composite_witness = 0) = FermatHolds(p, a1)
        /\ r1 = mpz_set_ui((PowMod(a1, p, p) + p - a1) % p)
        /\ FitsPow(a1, p) =>
              /\ (cmp1 = 0) = ExactHolds(p, a1)
              /\ e = mpz_set_ui(NatPow(a1, p) - a1)

\* p = 4, a = 2: 2^4 - 2 = 14, 14 mod 4 = 2, the trial fails.
C1_Witness ==
    /\ AfterTrial
    /\ p = 4 /\ a1 = 2
    /\ e = mpz_set_ui(14) /\ r1 = mpz_set_ui(2)
    /\ cmp1 # 0 /\ composite_witness = 2

(***************************************************************************)
(* C2: early termination.  Once a trial of a candidate has failed the      *)
(* congruence, the next step reports the candidate: no further witness is  *)
(* drawn and no further trial is run for it.                               *)
(***************************************************************************)
C2_EarlyTermination ==
    [][ (pc = "while" /\ nfailed > 0) =>
            /\ pc' = "for"
            /\ ndrawn' = ndrawn /\ trial' = trial /\ drawn' = drawn
            /\ a1' = a1 /\ nfailed' = nfailed
            /\ Len(out') = Len(out) + 1 ]_vars

\* A candidate reported after a single trial, 19 trials of its budget unused.
C2_Witness ==
    /\ Reported
    /\ nfailed = 1 /\ ndrawn = 1 /\ trial = 1
    /\ LastLine.kind = "composite" /\ LastLine.cand = 6

(***************************************************************************)
(* C3: a candidate is reported as a probable prime if and only if exactly  *)
(* 20 trials were run for it and all 20 passed; no candidate ever has more *)
(* than 20 trials.                                                         *)
(***************************************************************************)
C3_ProbablePrimeIffTwentyPasses ==
    /\ ndrawn <= 20
    /\ trial = ndrawn
    /\ Reported =>
          ((LastLine.kind = "probable prime") = (ndrawn = 20 /\ nfailed = 0))

\* 7 reported as a probable prime after 20 passing trials.
C3_Witness ==
    /\ Reported
    /\ LastLine.cand = 7 /\ LastLine.kind = "probable prime"
    /\ ndrawn = 20 /\ nfailed = 0

(***************************************************************************)
(* C4: liar reporting is one-step.  When the first failing trial has index *)
(* k > 0, the line reports the witness drawn in trial k and, as the liar,  *)
(* the witness drawn in trial k-1, not that of an earlier trial.           *)
(***************************************************************************)
C4_LiarIsPreviousDraw ==
    (Reported /\ nfailed > 0 /\ ndrawn > 1) =>
        /\ LastLine.kind = "composite"
        /\ LastLine.witness = drawn[3]
        /\ LastLine.has_liar
        /\ LastLine.liar = drawn[2]

\* 6 with draws 3, 4, 2: trials 0 and 1 pass, trial 2 fails; the liar is 4.
C4_Witness ==
    /\ Reported
    /\ LastLine.cand = 6 /\ ndrawn = 3 /\ drawn = <<3, 4, 2>>
    /\ LastLine.witness = 2 /\ LastLine.has_liar /\ LastLine.liar = 4

(***************************************************************************)
(* C5: no liar on first-trial failure.  If trial 0 fails with witness a0   *)
(* the line reports a0 and no liar; a liar is reported only if the failing *)
(* trial's index is greater than 0.                                        *)
(***************************************************************************)
C5_NoLiarOnFirstTrialFailure ==
    Reported =>
        /\ (nfailed > 0 /\ ndrawn = 1) =>
              /\ LastLine.kind = "composite"
              /\ LastLine.witness = drawn[3]
              /\ ~LastLine.has_liar
        /\ LastLine.has_liar => (nfailed > 0 /\ ndrawn > 1)

\* 4 reported composite on trial 0 with witness 3 and no liar.
C5_Witness ==
    /\ Reported
    /\ LastLine.cand = 4 /\ ndrawn = 1 /\ nfailed = 1
    /\ LastLine.witness = 3 /\ ~LastLine.has_liar
    /\ LastLine.text = "4 is composite - 3 is a composite witness\n"

(***************************************************************************)
(* C6: the preconditions of the congruence test hold at every trial: the   *)
(* candidate satisfies p >= 3 and, for every value r that rand() returns,  *)
(* the witness r % (p - 2) + 2 lies in [2, p-1]; for p = 3 it is 2.        *)
(***************************************************************************)
C6_WitnessInRange ==
    /\ (pc = "while") =>
          /\ p >= 3
          /\ \A r \in RandValues :
                /\ Draw(r) >= 2 /\ Draw(r) <= p - 1
                /\ (p = 3) => (Draw(r) = 2)
    /\ AfterTrial =>
          /\ a1 >= 2 /\ a1 <= p - 1
          /\ a = mpz_set_ui(a1)
          /\ (p = 3) => (a1 = 2)

\* The last trial of 3: all 20 draws were 2, and 3 is not reported composite.
C6_Witness ==
    /\ AfterTrial
    /\ p = 3 /\ ndrawn = 20 /\ drawn = <<2, 2, 2>>
    /\ composite_witness = 0

(***************************************************************************)
(* C7: every prime candidate in [3, max) is reported as a probable prime,  *)
(* whichever witnesses are drawn: no trial of a prime fails.               *)
(***************************************************************************)
C7_PrimeIsProbablePrime ==
    /\ \A i \in 1 .. Len(out) :
          ~IsComposite(out[i].cand) => (out[i].kind = "probable prime")
    /\ (pc = "while" /\ ~IsComposite(p)) =>
          (nfailed = 0 /\ composite_witness = 0)

\* 3, 5 and 7 reported as probable primes, 7 after the draws 6, 2, 5.
C7_Witness ==
    /\ Reported /\ Len(out) = 5
    /\ out[1].kind = "probable prime" /\ out[3].kind = "probable prime"
    /\ out[5].cand = 7 /\ out[5].kind = "probable prime"
    /\ drawn = <<6, 2, 5>>

(***************************************************************************)
(* C8: range coverage and order.  The scan reports exactly one line for    *)
(* each integer of [3, max), even or odd, in increasing order: the i-th    *)
(* line is the line of candidate i + 2, and max - 3 lines are written.     *)
(***************************************************************************)
C8_RangeCoverage ==
    /\ \A i \in 1 .. Len(out) : out[i].cand = i + 2
    /\ Len(out) = p - 3
    /\ Len(out) <= max - 3
    /\ (pc = "done") => (Len(out) = max - 3)

\* The finished scan: max - 3 lines, the even candidate 4 among them.
C8_Witness ==
    /\ pc = "done"
    /\ Len(out) = max - 3
    /\ out[1].cand = 3 /\ out[2].cand = 4 /\ out[2].kind = "composite"
    /\ out[Len(out)].cand = max - 1

(***************************************************************************)
(* C9 as stated: for every even candidate p >= 4 and every witness that    *)
(* can be drawn, trial 0 fails the congruence.                             *)
(***************************************************************************)
C9_EvenFailsOnTrialZero ==
    (pc = "while" /\ p % 2 = 0 /\ ndrawn = 1) =>
        (nfailed = 1 /\ composite_witness = a1)

(***************************************************************************)
(* C9 as amended: for every even candidate p >= 4, a trial 0 that draws    *)
(* the witness p - 1 fails the congruence, and the candidate is reported   *)
(* composite with witness p - 1 and no liar.  (Other witnesses can pass:   *)
(* 3 and 4 pass for p = 6.)                                                *)
(***************************************************************************)
C9_EvenFailsOnTrialZeroWithPMinusOne ==
    (pc = "while" /\ p % 2 = 0 /\ ndrawn = 1 /\ a1 = p - 1) =>
        /\ cmp1 # 0
        /\ nfailed = 1
        /\ ~WhileCond
        /\ Line.kind = "composite"
        /\ Line.witness = p - 1
        /\ ~Line.has_liar

\* 6 with first draw 5: 5^6 - 5 = 15620, 15620 mod 6 = 2.
C9_Witness ==
    /\ pc = "while"
    /\ p = 6 /\ ndrawn = 1 /\ a1 = 5
    /\ e = mpz_set_ui(15620) /\ r1 = mpz_set_ui(2)
    /\ composite_witness = 5 /\ fermat_liar = 0

(***************************************************************************)
(* C10: termination.  Whatever rand() returns, no candidate has more than  *)
(* 20 trials, and the scan eventually completes: a line has been written   *)
(* for every candidate of [3, max) and main has returned 0.                *)
(***************************************************************************)
C10_Terminates ==
    /\ [](ndrawn <= 20)
    /\ <>(/\ pc = "done"
          /\ returned = <<0>>
          /\ Len(out) = max - 3
          /\ \A i \in 1 .. Len(out) : out[i].cand = i + 2)

\* main has returned 0 after the last candidate, a prime or a composite.
C10_Witness ==
    /\ pc = "done"
    /\ returned = <<0>>
    /\ ~mpz_live
    /\ p = max
    /\ Len(out) = max - 3

(***************************************************************************)
(* C11: the Carmichael number.  Every witness in [2, 560] that is coprime  *)
(* to 561 satisfies the congruence; a trial of 561 that draws a coprime    *)
(* witness passes, so a trial that fails has drawn a witness sharing a     *)
(* factor with 561, and a run without a failing trial makes 20 draws and   *)
(* reports 561 as a probable prime.                                        *)
(***************************************************************************)

RECURSIVE Gcd(_, _)
\* Greatest common divisor, by Euclid's algorithm.
Gcd(x, y) == IF y = 0 THEN x ELSE Gcd(y, x % y)

\* The congruence holds for every witness in [2, 560] coprime to 561.
CoprimeWitnessesPass ==
    \A w \in 2 .. (Carmichael - 1) :
        (Gcd(w, Carmichael) = 1) => FermatHolds(Carmichael, w)

C11_CarmichaelCoprimePasses ==
    /\ CoprimeWitnessesPass
    /\ (AfterTrial /\ p = Carmichael /\ Gcd(a1, p) = 1) =>
            (cmp1 = 0 /\ r1 = mpz_init)
    /\ (p = Carmichael /\ nfailed > 0) => Gcd(drawn[3], Carmichael) # 1
    /\ (Reported /\ LastLine.cand = Carmichael /\ nfailed = 0) =>
            /\ ndrawn = MAX_TRIALS
            /\ LastLine.kind = "probable prime"
            /\ LastLine.text = "561 is a probable prime\n"

\* 561 reported as a probable prime after 20 trials whose last three draws
\* were the coprime witnesses 2, 5 and 8.
C11_Witness ==
    /\ pc = "for"
    /\ LastLine.cand = Carmichael
    /\ LastLine.kind = "probable prime"
    /\ ndrawn = MAX_TRIALS
    /\ drawn = <<2, 5, 8>>
    /\ \A i \in 1 .. 3 : Gcd(drawn[i], Carmichael) = 1

(***************************************************************************)
(* C12: the congruence check is a pure function of (p, a1).  Whatever the  *)
(* accumulators a, e and r1 hold from an earlier trial or an earlier       *)
(* candidate, a trial leaves in a the witness just drawn, in r1 the        *)
(* remainder (a1^p - a1) mod p and in e the difference a1^p - a1, and its  *)
(* decision is the documented congruence for (p, a1): the values a trial   *)
(* started on freshly initialised accumulators leaves.                     *)
(***************************************************************************)
C12_CheckIsPure ==
    [][(pc = "while" /\ ndrawn' = ndrawn + 1) =>
            /\ a' = mpz_set_ui(a1')
            /\ r1' = mpz_set_ui((PowMod(a1', p, p) + p - (a1' % p)) % p)
            /\ (cmp1' = 0) = FermatHolds(p, a1')
            /\ FitsPow(a1', p) => e' = mpz_set_ui(NatPow(a1', p) - a1')]_vars

\* The second trial of 6 draws 5 while a, e and r1 hold 3, 726 and 0 from the
\* first trial: it leaves 5, 15620 and 2.
C12_Witness ==
    /\ pc = "while"
    /\ p = 6 /\ ndrawn = 2 /\ drawn = <<0, 3, 5>> /\ olda1 = 3
    /\ a = mpz_set_ui(5) /\ e = mpz_set_ui(15620) /\ r1 = mpz_set_ui(2)
    /\ cmp1 # 0

(***************************************************************************)
(* C13: whenever a candidate is reported composite, the reported witness   *)
(* w is the value drawn in the last trial executed for that candidate,     *)
(* 2 <= w <= p - 1, and (w^p - w) mod p # 0.  A witness is reported only   *)
(* when a trial failed: a candidate without a failing trial is reported a  *)
(* probable prime, with no witness.                                        *)
(***************************************************************************)
C13_WitnessIsGenuine ==
    /\ \A i \in 1 .. Len(out) :
          IF out[i].kind = "composite"
          THEN /\ out[i].witness \in 2 .. (out[i].cand - 1)
               /\ ~FermatHolds(out[i].cand, out[i].witness)
          ELSE out[i].witness = 0
    /\ Reported =>
          /\ (LastLine.kind = "composite") = (nfailed > 0)
          /\ (LastLine.kind = "composite") =>
                /\ LastLine.witness = drawn[3]
                /\ LastLine.witness = a1
                /\ cmp1 # 0

\* 6 reported composite after three trials, the last of which drew 5:
\* 5^6 - 5 = 15620, 15620 mod 6 = 2.
C13_Witness ==
    /\ Reported
    /\ pc = "for"
    /\ LastLine.cand = 6
    /\ LastLine.kind = "composite"
    /\ LastLine.witness = 5
    /\ ndrawn = 3
    /\ drawn = <<3, 4, 5>>
    /\ r1 = mpz_set_ui(2)

(***************************************************************************)
(* C14: whenever a composite line reports a Fermat liar l, l is a genuine  *)
(* liar for the candidate p: 2 <= l <= p - 1, (l^p - l) mod p = 0 and p is *)
(* composite; l is the draw of the trial before the failing one and is     *)
(* different from the reported witness.                                    *)
(***************************************************************************)
C14_LiarIsGenuine ==
    /\ \A i \in 1 .. Len(out) :
          out[i].has_liar =>
              /\ out[i].kind = "composite"
              /\ out[i].liar \in 2 .. (out[i].cand - 1)
              /\ FermatHolds(out[i].cand, out[i].liar)
              /\ IsComposite(out[i].cand)
              /\ out[i].liar # out[i].witness
    /\ (Reported /\ LastLine.has_liar) =>
          /\ ndrawn >= 2
          /\ LastLine.liar = drawn[2]
          /\ LastLine.witness = drawn[3]

\* 6 reported composite with witness 2 and liar 3: 3^6 - 3 = 726 = 6 * 121,
\* 2^6 - 2 = 62, 62 mod 6 = 2.
C14_Witness ==
    /\ Reported
    /\ pc = "for"
    /\ LastLine.text
         = "6 is composite - 2 is a composite witness - 3 is a fermat liar for 6\n"
    /\ LastLine.liar = 3
    /\ drawn = <<0, 3, 2>>

(***************************************************************************)
(* C15: 561 is the only composite candidate of [3, 1000) for which every   *)
(* witness a with 1 < a < p passes the congruence, so the only composite   *)
(* that no draw can prove composite; every other composite candidate has   *)
(* a witness that fails, and a first trial drawing it ends the loop with   *)
(* a composite line.                                                       *)
(***************************************************************************)

\* The first-trial draws of the candidate p.
FirstDraws == {Draw(r) : r \in 0 .. FirstRandMax}

C15_OnlyCarmichaelHasNoWitness ==
    /\ (pc = "while" /\ IsComposite(p)) =>
          ((\A w \in 2 .. (p - 1) : FermatHolds(p, w)) <=> (p = Carmichael))
    /\ (pc = "while" /\ ndrawn = 1) =>
          /\ (cmp1 = 0) = FermatHolds(p, a1)
          /\ (p = Carmichael) => (cmp1 = 0 /\ composite_witness = 0)
    /\ (pc = "while" /\ ndrawn = 0 /\ IsComposite(p) /\ p # Carmichael) =>
          \E w \in FirstDraws :
              IsWitness(mpz_cmp_ui(CongruenceOf[p][w].r1, 0))
    /\ (pc = "while" /\ p = Carmichael) =>
          \A w \in 2 .. (RandMax + 2) : CongruenceOf[p][w].r1 = mpz_init
    /\ (pc = "for") =>
          /\ nfailed = 1
          /\ IsComposite(LastLine.cand)
          /\ LastLine.cand # Carmichael
          /\ LastLine.kind = "composite"

\* The first trial of 561 draws 3, a divisor of 561, and passes.
C15_Witness ==
    /\ pc = "while"
    /\ p = Carmichael
    /\ ndrawn = 1
    /\ a1 = 3
    /\ Gcd(a1, p) = 3
    /\ r1 = mpz_init
    /\ composite_witness = 0

(***************************************************************************)
(* C16: no trial-loop state crosses candidates.  The step that enters a    *)
(* candidate's loop leaves trial = 0, no witness, no liar and a1 = 0 (so   *)
(* the first trial saves olda1 = 0), although the accumulators keep the    *)
(* values of the candidate before; p does not change from the first to     *)
(* the last trial; the line is printed for that p, and the witness and     *)
(* the liar it reports were drawn in trials of that p.                     *)
(***************************************************************************)
C16_NoStateCrossesCandidates ==
    [][/\ (pc = "for" /\ pc' = "while") =>
              /\ trial' = 0
              /\ composite_witness' = 0
              /\ fermat_liar' = 0
              /\ a1' = 0
              /\ p' = p
       /\ (pc = "while" /\ pc' = "while") =>
              /\ p' = p
              /\ trial' = trial + 1
              /\ a1' \in 2 .. (p - 1)
              /\ (ndrawn = 0) => (trial = 0 /\ olda1' = 0)
       /\ (pc = "while" /\ pc' = "for") =>
              /\ trial = ndrawn
              /\ out' = Append(out, out'[Len(out')])
              /\ out'[Len(out')].cand = p
              /\ (out'[Len(out')].kind = "composite") =>
                    (ndrawn >= 1 /\ out'[Len(out')].witness = drawn[3])
              /\ out'[Len(out')].has_liar =>
                    (ndrawn >= 2 /\ out'[Len(out')].liar = drawn[2])]_vars

\* The loop of 7 starts with trial = 0 and a1 = 0 while olda1, a and e hold
\* 3, 5 and 15620 from the two trials of 6.
C16_Witness ==
    /\ pc = "while"
    /\ p = 7 /\ ndrawn = 0 /\ trial = 0
    /\ a1 = 0 /\ composite_witness = 0 /\ fermat_liar = 0
    /\ olda1 = 3 /\ a = mpz_set_ui(5) /\ e = mpz_set_ui(15620)

(***************************************************************************)
(* C17: the loop refines the state machine of the specification,           *)
(*   Running(trial_index, last_passing_witness)                            *)
(*       -> Running(trial_index + 1, Some(a)) | Proven(a, w) | Exhausted,  *)
(* under the mapping trial -> trial_index, a1 -> last_passing_witness      *)
(* (0 for None), composite_witness # 0 -> Proven(composite_witness,        *)
(* fermat_liar), loop exit with composite_witness = 0 -> Exhausted.  The   *)
(* loop is entered in Running(0, None); every trial is a transition of     *)
(* the machine for some witness a in [2, p - 1], the congruence being the  *)
(* documented one; the line is printed in a terminal state and follows     *)
(* the output mapping.                                                     *)
(***************************************************************************)

\* The states of the specified machine; 0 stands for None.
Running(i, w) ==
    [tag |-> "Running", trial_index |-> i, last_passing_witness |-> w,
     witness |-> 0, maybe_liar |-> 0]
Proven(w, l) ==
    [tag |-> "Proven", trial_index |-> 0, last_passing_witness |-> 0,
     witness |-> w, maybe_liar |-> l]
Exhausted ==
    [tag |-> "Exhausted", trial_index |-> 0, last_passing_witness |-> 0,
     witness |-> 0, maybe_liar |-> 0]

\* The transition of the machine from s to t for the candidate q.
MachineStep(q, s, t) ==
    /\ s.tag = "Running"
    /\ \E w \in 2 .. (q - 1) :
          IF FermatHolds(q, w)
          THEN t = (IF s.trial_index + 1 = MAX_TRIALS
                    THEN Exhausted
                    ELSE Running(s.trial_index + 1, w))
          ELSE t = Proven(w, s.last_passing_witness)

\* The state of the machine a state of the loop stands for.
MachineState(t, cw, fl, last) ==
    IF cw # 0 THEN Proven(cw, fl)
    ELSE IF t >= MAX_TRIALS THEN Exhausted
    ELSE Running(t, last)

C17_LoopRefinesMachine ==
    [][/\ (pc = "for" /\ pc' = "while") =>
              MachineState(trial', composite_witness', fermat_liar', a1')
                  = Running(0, 0)
       /\ (pc = "while" /\ pc' = "while") =>
              MachineStep(p,
                  MachineState(trial, composite_witness, fermat_liar, a1),
                  MachineState(trial', composite_witness', fermat_liar', a1'))
       /\ (pc = "while" /\ pc' = "for") =>
              LET s == MachineState(trial, composite_witness, fermat_liar, a1)
                  l == out'[Len(out')]
              IN  /\ s.tag \in {"Proven", "Exhausted"}
                  /\ (s.tag = "Exhausted") => (l.kind = "probable prime")
                  /\ (s.tag = "Proven") =>
                        /\ l.kind = "composite"
                        /\ l.witness = s.witness
                        /\ l.has_liar = (s.maybe_liar # 0)
                        /\ l.liar = s.maybe_liar]_vars

\* The second trial of 6 has taken Running(1, Some(4)) to Proven(2, Some(4)).
C17_Witness ==
    /\ pc = "while"
    /\ p = 6 /\ trial = 2 /\ olda1 = 4
    /\ MachineState(trial, composite_witness, fermat_liar, a1) = Proven(2, 4)
    /\ MachineStep(p, Running(1, 4), Proven(2, 4))

(***************************************************************************)
(* C18: 0 as the "none" marker never collides with a real value.  In every *)
(* state of a candidate's loop no drawn witness is 0; composite_witness is *)
(* not 0 exactly when a trial of this candidate has failed; fermat_liar is *)
(* positive exactly when a trial with index > 0 has failed (the failing    *)
(* trial is the last one, of index ndrawn - 1).                            *)
(***************************************************************************)
C18_ZeroMarksNone ==
    (pc = "while") =>
        /\ (ndrawn > 0) => (a1 >= 2)
        /\ \A i \in 1 .. 3 : (drawn[i] = 0) = (i <= 3 - ndrawn)
        /\ (ndrawn > 1) => (olda1 >= 2)
        /\ (composite_witness # 0) = (nfailed > 0)
        /\ (fermat_liar > 0) = (nfailed > 0 /\ ndrawn - 1 > 0)
        /\ (fermat_liar >= 0) /\ (composite_witness >= 0)

\* The third trial of 6 (index 2) has failed with the witness 5 after the
\* draws 4 and 3: the liar register holds 3.
C18_Witness ==
    /\ pc = "while"
    /\ p = 6 /\ ndrawn = 3 /\ drawn = <<4, 3, 5>>
    /\ nfailed = 1
    /\ composite_witness = 5
    /\ fermat_liar = 3

====
